---- MODULE Spec2Model ----
(***************************************************************************)
(* A model of gofaquan/ratelimit: the token bucket of                      *)
(* token-bucket/ratelimit.go and the smoothing limiter of                  *)
(* uber-go-ratelimit/ratelimit.go, and the mock clock of                   *)
(* uber-go-ratelimit/internal/clock/clock.go.                              *)
(*                                                                         *)
(* Time is an integer number of clock units; a time.Duration is a          *)
(* difference of two such numbers.                                         *)
(***************************************************************************)
EXTENDS Integers, Sequences, FiniteSets, TLC

VARIABLES
    now,              \* the reading of the Clock shared by bucket and limiter
    \* ---- Bucket (token-bucket/ratelimit.go:17-47)
    startTime,
    capacity,
    quantum,
    fillInterval,
    availableTokens,
    latestTick,
    call,             \* the last completed call on the bucket
    \* ---- concurrent callers of one Bucket
    mu,               \* Bucket.mu: 0 when free, else the caller holding it
    pc,               \* where every caller stands in its call
    loc,              \* every caller's arguments and local variables
    lin,              \* the calls in the order they acquired mu, with results
    \* ---- limiter (uber-go-ratelimit/ratelimit.go:35-42)
    last,
    sleepFor,
    perRequest,
    maxSlack,
    lrec,             \* what the last limiter.Take did
    burst,            \* consecutive Takes that did not sleep, clock unmoved
    \* ---- constructors called with arbitrary arguments
    ctor,             \* the arguments of the constructor call and its outcome
    \* ---- tokens handed out by the bucket
    out,              \* out[t]: tokens handed out at the instants from t on
    \* ---- Mock (uber-go-ratelimit/internal/clock/clock.go:13-16)
    mlock,            \* Mock.Mutex: 0 when free, else who holds it
    timers,           \* Mock.timers: the timers in the heap
    tmr,              \* every goroutine that makes a timer, and its timer
    add               \* the goroutine that calls Mock.Add

bucketVars == <<startTime, capacity, quantum, fillInterval,
                availableTokens, latestTick>>
concVars == <<mu, pc, loc, lin>>
limiterVars == <<last, sleepFor, perRequest, maxSlack, lrec, burst>>
mockVars == <<mlock, timers, tmr, add>>
restVars == <<ctor, out, mockVars>>
vars == <<now, bucketVars, call, concVars, limiterVars, restVars>>

----------------------------------------------------------------------------
(* Bounds of the model. *)

MaxTime == 4           \* the bucket's clock is not advanced past this
MaxFillInterval == 2
MaxCapacity == 2
MaxQuantum == 2
MaxCount == 3          \* counts passed to the bucket are MinCount..MaxCount
MaxWaitArg == 1        \* maxWait arguments are 0 and MaxWaitArg
MaxDebt == 1           \* a call is not issued if it would owe more than this

MinCount == 0 - 1

\* What the clock may read when the bucket is built.
StartTimes == {0, 1}

Counts == MinCount..MaxCount
MaxWaits == {0, MaxWaitArg}

\* infinityDuration (2^63-1 in the source) is the largest duration there is;
\* here the largest 32-bit integer, above every wait the model computes.
infinityDuration == 2147483647

Min(a, b) == IF a < b THEN a ELSE b
Max(a, b) == IF a > b THEN a ELSE b

----------------------------------------------------------------------------
(* The Bucket's private functions, as functions of the two guarded fields  *)
(* b = [availableTokens, latestTick] and the call's arguments.             *)

Fields(a, t) == [availableTokens |-> a, latestTick |-> t]

\* now.Sub(startTime) / fillInterval: Go's integer division truncates, and
\* the dividend is never negative because the clock never runs backwards.
currentTick(t) == (t - startTime) \div fillInterval

\* adjustavailableTokens without the clamp at capacity.
adjustavailableTokens_NoClamp(b, tick) ==
    IF b.availableTokens >= capacity
    THEN b
    ELSE Fields(b.availableTokens + (tick - b.latestTick) * quantum, tick)

adjustavailableTokens(b, tick) ==
    IF b.availableTokens >= capacity
    THEN b
    ELSE LET a == b.availableTokens + (tick - b.latestTick) * quantum
         IN  Fields(IF a > capacity THEN capacity ELSE a, tick)

\* take that reserves the tokens before it looks at maxWait.
take_ReserveThenReject(b, t, count, maxWait) ==
    IF count <= 0
    THEN [b |-> b, d |-> 0, ok |-> TRUE]
    ELSE LET tick == currentTick(t)
             adj == adjustavailableTokens(b, tick)
             avail == adj.availableTokens - count
             endTick == tick + ((0 - avail) + quantum - 1) \div quantum
             waitTime == startTime + endTick * fillInterval - t
         IN  IF avail >= 0
             THEN [b |-> Fields(avail, adj.latestTick), d |-> 0, ok |-> TRUE]
             ELSE [b |-> Fields(avail, adj.latestTick),
                   d |-> IF waitTime > maxWait THEN 0 ELSE waitTime,
                   ok |-> waitTime <= maxWait]

\* take returns the fields it leaves behind with the pair (d, ok).
take(b, t, count, maxWait) ==
    IF count <= 0
    THEN [b |-> b, d |-> 0, ok |-> TRUE]
    ELSE LET tick == currentTick(t)
             adj == adjustavailableTokens(b, tick)
             avail == adj.availableTokens - count
             endTick == tick + ((0 - avail) + quantum - 1) \div quantum
             endTime == startTime + endTick * fillInterval
             waitTime == endTime - t
         IN  IF avail >= 0
             THEN [b |-> Fields(avail, adj.latestTick), d |-> 0, ok |-> TRUE]
             ELSE IF waitTime > maxWait
                  THEN [b |-> adj, d |-> 0, ok |-> FALSE]
                  ELSE [b |-> Fields(avail, adj.latestTick),
                        d |-> waitTime, ok |-> TRUE]

\* takeAvailable that hands out count whenever a token is there.
takeAvailable_NoCap(b, t, count) ==
    IF count <= 0
    THEN [b |-> b, n |-> 0]
    ELSE LET adj == adjustavailableTokens(b, currentTick(t))
         IN  IF adj.availableTokens <= 0
             THEN [b |-> adj, n |-> 0]
             ELSE [b |-> Fields(adj.availableTokens - count, adj.latestTick),
                   n |-> count]

\* takeAvailable returns the fields it leaves behind with the count taken.
takeAvailable(b, t, count) ==
    IF count <= 0
    THEN [b |-> b, n |-> 0]
    ELSE LET adj == adjustavailableTokens(b, currentTick(t))
             c == IF count > adj.availableTokens
                  THEN adj.availableTokens ELSE count
         IN  IF adj.availableTokens <= 0
             THEN [b |-> adj, n |-> 0]
             ELSE [b |-> Fields(adj.availableTokens - c, adj.latestTick),
                   n |-> c]

available(b, t) ==
    LET adj == adjustavailableTokens(b, currentTick(t))
    IN  [b |-> adj, n |-> adj.availableTokens]

----------------------------------------------------------------------------
(* The bucket driven by one caller: every public method is one step.       *)

Cur == Fields(availableTokens, latestTick)

\* One completed call: its arguments, the clock it read, what it returned
\* and the guarded fields it found.  The fields it left are the bucket's own
\* until the next call.
Rec(op, count, ret, ok) ==
    [op |-> op, count |-> count, now |-> now, ret |-> ret, ok |-> ok,
     preAvail |-> availableTokens, preTick |-> latestTick]

NoCall == Rec("none", 0, 0, TRUE)

Remember(r) == call' = r

Commit(b) ==
    /\ availableTokens' = b.availableTokens
    /\ latestTick' = b.latestTick
    /\ UNCHANGED <<startTime, capacity, quantum, fillInterval>>

InDebtBound(b) == b.availableTokens >= 0 - MaxDebt

\* NewBucketWithQuantumAndClock with every argument positive.
NewBucketWithQuantumAndClock ==
    /\ now \in StartTimes
    /\ startTime = now
    /\ fillInterval \in 1..MaxFillInterval
    /\ capacity \in 1..MaxCapacity
    /\ quantum \in 1..MaxQuantum
    /\ availableTokens = capacity
    /\ latestTick = 0

Take(count) ==
    LET r == take(Cur, now, count, infinityDuration)
    IN  /\ InDebtBound(r.b)
        /\ Commit(r.b)
        /\ Remember(Rec("Take", count, r.d, r.ok))
        /\ UNCHANGED now

TakeMaxDuration(count, maxWait) ==
    LET r == take(Cur, now, count, maxWait)
    IN  /\ InDebtBound(r.b)
        /\ Commit(r.b)
        /\ Remember(Rec("TakeMaxDuration", count, r.d, r.ok))
        /\ UNCHANGED now

TakeAvailable(count) ==
    LET r == takeAvailable(Cur, now, count)
    IN  /\ Commit(r.b)
        /\ Remember(Rec("TakeAvailable", count, r.n, TRUE))
        /\ UNCHANGED now

Available ==
    LET r == available(Cur, now)
    IN  /\ Commit(r.b)
        /\ Remember(Rec("Available", 0, r.n, TRUE))
        /\ UNCHANGED now

\* Clock.Sleep(d) "sleeps for at least the given duration": the caller is
\* back when the clock has moved by d, and Advance may move it further
\* before the caller's next call.  Wait and WaitMaxDuration are Take and
\* TakeMaxDuration followed by that sleep.
Sleep(d) == now' = now + d

Wait(count) ==
    LET r == take(Cur, now, count, infinityDuration)
    IN  /\ InDebtBound(r.b)
        /\ now + r.d <= MaxTime
        /\ Commit(r.b)
        /\ Remember(Rec("Take", count, r.d, r.ok))
        /\ IF r.d > 0 THEN Sleep(r.d) ELSE UNCHANGED now

WaitMaxDuration(count, maxWait) ==
    LET r == take(Cur, now, count, maxWait)
    IN  /\ InDebtBound(r.b)
        /\ now + r.d <= MaxTime
        /\ Commit(r.b)
        /\ Remember(Rec("TakeMaxDuration", count, r.d, r.ok))
        /\ IF r.d > 0 THEN Sleep(r.d) ELSE UNCHANGED now

\* Time passes, one clock unit at a step, while nobody calls the bucket.
Advance ==
    /\ now < MaxTime
    /\ now' = now + 1
    /\ UNCHANGED <<bucketVars, call>>

\* No goroutine is calling the bucket.
ConcIdle ==
    /\ mu = 0
    /\ pc = <<>>
    /\ loc = <<>>
    /\ lin = <<>>

\* No limiter has been built.
LimiterIdle ==
    /\ last = 0
    /\ sleepFor = 0
    /\ perRequest = 0
    /\ maxSlack = 0
    /\ lrec = <<>>
    /\ burst = 0

\* No constructor under test, no accounting of tokens, no mock clock.
RestIdle ==
    /\ ctor = <<>>
    /\ out = <<>>
    /\ mlock = 0
    /\ timers = {}
    /\ tmr = <<>>
    /\ add = <<>>

\* One call on the bucket, or the clock moving while nobody calls it.
BucketStep ==
    \/ \E c \in Counts : Take(c)
    \/ \E c \in Counts, w \in MaxWaits : TakeMaxDuration(c, w)
    \/ \E c \in Counts : TakeAvailable(c)
    \/ Available
    \/ \E c \in Counts : Wait(c)
    \/ \E c \in Counts, w \in MaxWaits : WaitMaxDuration(c, w)
    \/ Advance

BucketInit ==
    /\ NewBucketWithQuantumAndClock
    /\ call = NoCall
    /\ ConcIdle
    /\ LimiterIdle
    /\ RestIdle

BucketNext ==
    /\ BucketStep
    /\ UNCHANGED <<concVars, limiterVars, restVars>>

Spec == BucketInit /\ [][BucketNext]_vars

----------------------------------------------------------------------------
(* Properties of the bucket driven by one caller (Spec).                   *)

Pre == Fields(call.preAvail, call.preTick)

\* A step that is a call of the method op which read the clock at `now`.
IsCall(op) == call'.op = op /\ call'.now = now /\ call' # call

C2_AvailableAtMostCapacity == availableTokens <= capacity

\* C2 witness: a refill that would overshoot capacity has been clamped.
C2_Witness ==
    /\ call.op = "Available"
    /\ call.preAvail < capacity
    /\ call.preAvail
         + (currentTick(call.now) - call.preTick) * quantum > capacity
    /\ availableTokens = capacity

\* C3, as claimed: once a call has left the bucket drained (balance 0) at
\* some clock reading, Available() called N fill intervals later, with no
\* call in between, returns min(N * quantum, capacity).
C3_RefillAfterDrain ==
    [][(/\ call.op # "none"
        /\ availableTokens = 0
        /\ IsCall("Available")
        /\ now - call.now >= fillInterval
        /\ (now - call.now) % fillInterval = 0)
       => call'.ret =
            Min(((now - call.now) \div fillInterval) * quantum, capacity)]_vars

\* C5, as claimed: Available() returns a, Take(count) with 0 < count <= a
\* follows at the same clock reading; then Take returns a zero wait and an
\* Available() called right after returns a - count.
C5_TakeWithinAvailable ==
    [][(/\ call.op = "Available"
        /\ call.now = now
        /\ IsCall("Take")
        /\ now' = now
        /\ 0 < call'.count
        /\ call'.count <= call.ret)
       => /\ call'.ret = 0
          /\ available(Cur', now').n = call.ret - call'.count]_vars

\* C6, as claimed: TakeAvailable(count) returns min(count, max(b, 0)), b the
\* balance after the refill at the clock reading of the call, and leaves
\* the balance b minus what it returned; it returns no negative number.
C6_TakeAvailableFormula ==
    call.op = "TakeAvailable" =>
        LET b == adjustavailableTokens(Pre, currentTick(call.now))
        IN  /\ call.ret = Min(call.count, Max(b.availableTokens, 0))
            /\ availableTokens = b.availableTokens - call.ret
            /\ call.ret >= 0

\* C6, amended: for count > 0, TakeAvailable(count) returns
\* min(count, max(b, 0)) and leaves the balance b minus that; for
\* count <= 0 it returns 0 and leaves the bucket untouched, the refill not
\* applied.  It never returns a negative number, more than was asked, or
\* more than there is, and never takes a balance that is >= 0 below 0.
C6_TakeAvailableClamped ==
    call.op = "TakeAvailable" =>
        LET b == adjustavailableTokens(Pre, currentTick(call.now))
        IN  /\ call.count > 0 =>
                /\ call.ret = Min(call.count, Max(b.availableTokens, 0))
                /\ availableTokens = b.availableTokens - call.ret
                /\ latestTick = b.latestTick
                /\ b.availableTokens >= 0 => availableTokens >= 0
            /\ call.count <= 0 => (call.ret = 0 /\ Cur = Pre)
            /\ call.ret >= 0
            /\ call.ret <= Max(call.count, 0)
            /\ call.ret <= Max(b.availableTokens, 0)

\* C6 witness: TakeAvailable(capacity + 1) on a full bucket returned
\* capacity and left nothing.
C6_Witness ==
    /\ call.op = "TakeAvailable"
    /\ call.count = capacity + 1
    /\ call.preAvail = capacity
    /\ call.ret = capacity
    /\ availableTokens = 0

----------------------------------------------------------------------------
(* One bucket called by several goroutines (SpecConc).  A call takes       *)
(* tb.mu, reads the clock, runs take or takeAvailable statement by         *)
(* statement on the shared fields, and releases tb.mu on return.           *)

Procs == {1, 2}
ConcCounts == 0..MaxCount
ConcMaxTime == 1       \* the clock is not advanced past this while they run

Idle == [op |-> "none", count |-> 0, maxWait |-> 0, now |-> 0, tick |-> 0,
         avail |-> 0, ret |-> 0, ok |-> TRUE]

Goto(p, label) == pc' = [pc EXCEPT ![p] = label]

\* A goroutine enters Take, TakeMaxDuration or TakeAvailable; every
\* goroutine makes one call.
Enter(p, op, count, maxWait) ==
    /\ pc[p] = "idle"
    /\ loc' = [loc EXCEPT ![p] = [Idle EXCEPT !.op = op, !.count = count,
                                              !.maxWait = maxWait]]
    /\ Goto(p, "lock")
    /\ UNCHANGED <<now, bucketVars, mu, lin>>

\* tb.mu.Lock(), without regard to who holds tb.mu.
Lock_NoExclusion(p) ==
    /\ pc[p] = "lock"
    /\ mu' = p
    /\ Goto(p, "now")
    /\ UNCHANGED <<now, bucketVars, loc, lin>>

\* tb.mu.Lock()
Lock(p) ==
    /\ pc[p] = "lock"
    /\ mu = 0
    /\ mu' = p
    /\ Goto(p, "now")
    /\ UNCHANGED <<now, bucketVars, loc, lin>>

\* tb.clock.Now(), the argument of take and takeAvailable; both return at
\* once when count <= 0.
ReadNow(p) ==
    /\ pc[p] = "now"
    /\ loc' = [loc EXCEPT ![p].now = now, ![p].tick = currentTick(now)]
    /\ Goto(p, IF loc[p].count <= 0 THEN "unlock" ELSE "adjust")
    /\ UNCHANGED <<now, bucketVars, mu, lin>>

\* tb.adjustavailableTokens(tick)
Adjust(p) ==
    /\ pc[p] = "adjust"
    /\ Commit(adjustavailableTokens(Cur, loc[p].tick))
    /\ Goto(p, "read")
    /\ UNCHANGED <<now, mu, loc, lin>>

\* take: avail := tb.availableTokens - count.
\* takeAvailable: count is cut down to tb.availableTokens, 0 if none is left.
ReadTokens(p) ==
    /\ pc[p] = "read"
    /\ loc' = [loc EXCEPT ![p].avail =
                 IF loc[p].op = "TakeAvailable"
                 THEN IF availableTokens <= 0 THEN 0
                      ELSE Min(loc[p].count, availableTokens)
                 ELSE availableTokens - loc[p].count]
    /\ Goto(p, "commit")
    /\ UNCHANGED <<now, bucketVars, mu, lin>>

\* take: the rest of the function, from `if avail >= 0`.
\* takeAvailable: tb.availableTokens -= count.
Write(p) ==
    /\ pc[p] = "commit"
    /\ LET l == loc[p]
           endTick == l.tick + ((0 - l.avail) + quantum - 1) \div quantum
           waitTime == startTime + endTick * fillInterval - l.now
       IN  IF l.op = "TakeAvailable"
           THEN /\ availableTokens' = availableTokens - l.avail
                /\ loc' = [loc EXCEPT ![p].ret = l.avail]
           ELSE IF l.avail >= 0
           THEN /\ availableTokens' = l.avail
                /\ loc' = [loc EXCEPT ![p].ret = 0]
           ELSE IF waitTime > l.maxWait
           THEN /\ availableTokens' = availableTokens
                /\ loc' = [loc EXCEPT ![p].ret = 0, ![p].ok = FALSE]
           ELSE /\ availableTokens' = l.avail
                /\ loc' = [loc EXCEPT ![p].ret = waitTime]
    /\ Goto(p, "unlock")
    /\ UNCHANGED <<now, startTime, capacity, quantum, fillInterval,
                   latestTick, mu, lin>>

\* The deferred tb.mu.Unlock() and the return to the caller.
Unlock(p) ==
    /\ pc[p] = "unlock"
    /\ mu' = 0
    /\ lin' = Append(lin, [op |-> loc[p].op, count |-> loc[p].count,
                           maxWait |-> loc[p].maxWait, now |-> loc[p].now,
                           ret |-> loc[p].ret, ok |-> loc[p].ok])
    /\ Goto(p, "done")
    /\ UNCHANGED <<now, bucketVars, loc>>

\* The clock moves on, whatever the goroutines are doing.
Tick ==
    /\ now < ConcMaxTime
    /\ now' = now + 1
    /\ UNCHANGED <<bucketVars, concVars>>

ConcInit ==
    /\ NewBucketWithQuantumAndClock
    /\ call = NoCall
    /\ mu = 0
    /\ pc = [p \in Procs |-> "idle"]
    /\ loc = [p \in Procs |-> Idle]
    /\ lin = <<>>
    /\ LimiterIdle
    /\ RestIdle

ConcNext ==
    /\ \/ \E p \in Procs, c \in Counts :
            Enter(p, "Take", c, infinityDuration)
       \/ \E p \in Procs, c \in Counts, w \in MaxWaits :
            Enter(p, "TakeMaxDuration", c, w)
       \/ \E p \in Procs, c \in Counts : Enter(p, "TakeAvailable", c, 0)
       \/ \E p \in Procs : Lock(p)
       \/ \E p \in Procs : ReadNow(p)
       \/ \E p \in Procs : Adjust(p)
       \/ \E p \in Procs : ReadTokens(p)
       \/ \E p \in Procs : Write(p)
       \/ \E p \in Procs : Unlock(p)
       \/ Tick
    /\ UNCHANGED <<call, limiterVars, restVars>>

SpecConc == ConcInit /\ [][ConcNext]_vars

\* What the call e returns, and the fields it leaves, when it runs alone on
\* the fields b.
Alone(b, e) ==
    IF e.op = "TakeAvailable"
    THEN LET r == takeAvailable(b, e.now, e.count)
         IN  [b |-> r.b, ret |-> r.n, ok |-> TRUE]
    ELSE LET r == take(b, e.now, e.count, e.maxWait)
         IN  [b |-> r.b, ret |-> r.d, ok |-> r.ok]

\* The fields after the calls of s ran one after the other on a new bucket.
RECURSIVE Serial(_)
Serial(s) ==
    IF s = <<>> THEN Fields(capacity, 0)
    ELSE Alone(Serial(SubSeq(s, 1, Len(s) - 1)), s[Len(s)]).b

\* C4: the calls are linearizable.  Every completed call returned what it
\* returns when the completed calls run one after the other, in the order
\* in which they held tb.mu, and whenever tb.mu is free the bucket's fields
\* are those that serial run leaves: no reservation is lost, and a call
\* decides on the balance the call before it committed.
C4_Linearizable ==
    /\ \A i \in 1..Len(lin) :
         LET r == Alone(Serial(SubSeq(lin, 1, i - 1)), lin[i])
         IN  r.ret = lin[i].ret /\ r.ok = lin[i].ok
    /\ mu = 0 => Cur = Serial(lin)

\* C4 witness: two goroutines called Take, both met a shortfall at the same
\* clock reading, the balance is down by both counts and the one served
\* later waits longer, for the debt of both.
C4_Witness ==
    /\ Len(lin) = 2
    /\ mu = 0
    /\ lin[1].op = "Take" /\ lin[2].op = "Take"
    /\ lin[1].now = lin[2].now
    /\ lin[1].ret > 0
    /\ lin[2].ret > lin[1].ret
    /\ availableTokens = capacity - lin[1].count - lin[2].count

----------------------------------------------------------------------------
(* The limiter of uber-go-ratelimit (SpecLimiter).  Take holds the         *)
(* limiter's lock from its first statement to its return, the sleep        *)
(* included, so a Take is one step.                                        *)

Second == 3            \* clock units in time.Second
LimiterMaxTime == 18   \* no Take starts after the clock has passed this

\* The zero time.Time, which no clock reads.
ZeroTime == 0 - 1

\* Rates for which perRequest is at least one clock unit.
Rates == 1..Second

\* Go's x / y for x <= 0 < y, which truncates towards zero.
QuoNeg(x, y) == 0 - ((0 - x) \div y)

CeilDiv(x, y) == (x + y - 1) \div y

\* Take that does not clamp sleepFor at maxSlack.
limiterTake_NoClamp(l, t) ==
    IF l.last = ZeroTime
    THEN [last |-> t, sleepFor |-> l.sleepFor, slept |-> 0]
    ELSE LET s == l.sleepFor + perRequest - (t - l.last)
         IN  IF s > 0
             THEN [last |-> t + s, sleepFor |-> 0, slept |-> s]
             ELSE [last |-> t, sleepFor |-> s, slept |-> 0]

\* Take that keeps the debt it has slept off.
limiterTake_KeepDebt(l, t) ==
    IF l.last = ZeroTime
    THEN [last |-> t, sleepFor |-> l.sleepFor, slept |-> 0]
    ELSE LET s1 == l.sleepFor + perRequest - (t - l.last)
             s == IF s1 < maxSlack THEN maxSlack ELSE s1
         IN  IF s > 0
             THEN [last |-> t + s, sleepFor |-> s, slept |-> s]
             ELSE [last |-> t, sleepFor |-> s, slept |-> 0]

\* Take that returns the time it read, even after sleeping.
limiterTake_LastIsNow(l, t) ==
    IF l.last = ZeroTime
    THEN [last |-> t, sleepFor |-> l.sleepFor, slept |-> 0]
    ELSE LET s1 == l.sleepFor + perRequest - (t - l.last)
             s == IF s1 < maxSlack THEN maxSlack ELSE s1
         IN  IF s > 0
             THEN [last |-> t, sleepFor |-> 0, slept |-> s]
             ELSE [last |-> t, sleepFor |-> s, slept |-> 0]

\* limiter.Take on the fields l = [last, sleepFor] with the clock reading t:
\* the fields it leaves (last is what it returns) and how long it slept.
limiterTake(l, t) ==
    IF l.last = ZeroTime
    THEN [last |-> t, sleepFor |-> l.sleepFor, slept |-> 0]
    ELSE LET s1 == l.sleepFor + perRequest - (t - l.last)
             s == IF s1 < maxSlack THEN maxSlack ELSE s1
         IN  IF s > 0
             THEN [last |-> t + s, sleepFor |-> 0, slept |-> s]
             ELSE [last |-> t, sleepFor |-> s, slept |-> 0]

\* New(rate) and New(rate, WithoutSlack), rate > 0.
New(rate, withoutSlack) ==
    /\ perRequest = Second \div rate
    /\ maxSlack = IF withoutSlack THEN 0 ELSE QuoNeg(0 - 10 * Second, rate)
    /\ last = ZeroTime
    /\ sleepFor = 0

\* What a Take did: its number (1, 2, or 3 for any later one), the clock
\* it read, the fields it found, the time since the Take before it that
\* the Take before it had found, how long it slept and what it returned.
NoTake == [n |-> 0, now |-> 0, preLast |-> ZeroTime, preSleepFor |-> 0,
           prevGap |-> 0, slept |-> 0, ret |-> ZeroTime]

LimiterTake ==
    LET r == limiterTake([last |-> last, sleepFor |-> sleepFor], now)
    IN  /\ now <= LimiterMaxTime
        /\ last' = r.last
        /\ sleepFor' = r.sleepFor
        /\ now' = now + r.slept
        /\ lrec' = [n |-> Min(lrec.n + 1, 3), now |-> now,
                    preLast |-> last, preSleepFor |-> sleepFor,
                    prevGap |-> IF lrec.n = 0 THEN 0
                                ELSE lrec.now - lrec.preLast,
                    slept |-> r.slept, ret |-> r.last]
        /\ burst' = IF r.slept > 0 THEN 0 ELSE burst + 1
        /\ UNCHANGED <<perRequest, maxSlack>>

\* Time passes between two Takes.
LimiterAdvance ==
    /\ now < LimiterMaxTime
    /\ now' = now + 1
    /\ burst' = 0
    /\ UNCHANGED <<last, sleepFor, perRequest, maxSlack, lrec>>

BucketIdle ==
    /\ startTime = 0
    /\ capacity = 0
    /\ quantum = 0
    /\ fillInterval = 0
    /\ availableTokens = 0
    /\ latestTick = 0
    /\ call = <<>>
    /\ ConcIdle

LimiterInit ==
    /\ now = 0
    /\ \E rate \in Rates, withoutSlack \in BOOLEAN : New(rate, withoutSlack)
    /\ lrec = NoTake
    /\ burst = 0
    /\ BucketIdle
    /\ RestIdle

LimiterNext ==
    /\ \/ LimiterTake
       \/ LimiterAdvance
    /\ UNCHANGED <<bucketVars, call, concVars, restVars>>

SpecLimiter == LimiterInit /\ [][LimiterNext]_vars

\* C7: maxSlack <= sleepFor, after every Take.
C7_SleepForAtLeastMaxSlack == maxSlack <= sleepFor

\* C7 witness: a Take after a long idle period, whose debt would have
\* fallen below maxSlack, left it at maxSlack.
C7_Witness ==
    /\ lrec.n >= 2
    /\ maxSlack < 0
    /\ lrec.preSleepFor + perRequest - (lrec.now - lrec.preLast) < maxSlack
    /\ sleepFor = maxSlack

\* The most Takes in a row that return without sleeping while the clock
\* stands still.
MaxBurst == CeilDiv(0 - maxSlack, perRequest) + 1

\* C8: however long the limiter was idle, at most
\* ceil(-maxSlack / perRequest) + 1 Takes in a row return without sleeping
\* while the clock stands still, and the Take after that many sleeps.
C8_BurstBounded ==
    /\ burst <= MaxBurst
    /\ burst = MaxBurst =>
         limiterTake([last |-> last, sleepFor |-> sleepFor], now).slept > 0

\* C8 witness: a limiter with slack, idle for longer than its slack is
\* worth, has let through the whole burst.
C8_Witness ==
    /\ maxSlack < 0
    /\ burst = MaxBurst
    /\ burst > 10
    /\ sleepFor = 0

\* C9: with WithoutSlack, sleepFor is 0 after every Take; a Take that finds
\* the clock at the time the Take before it returned sleeps perRequest; and
\* the times two Takes in a row return are at least perRequest apart.
C9_WithoutSlack ==
    (maxSlack = 0 /\ lrec.n >= 1) =>
        /\ sleepFor = 0
        /\ lrec.n >= 2 =>
             /\ lrec.now = lrec.preLast => lrec.slept = perRequest
             /\ lrec.ret - lrec.preLast >= perRequest

\* C9 witness: the Take before the last came after an idle period longer
\* than perRequest; the last Take followed it at once and slept perRequest.
C9_Witness ==
    /\ maxSlack = 0
    /\ lrec.n = 3
    /\ lrec.prevGap > perRequest
    /\ lrec.now = lrec.preLast
    /\ lrec.slept = perRequest
    /\ sleepFor = 0

\* C10: the first Take returns the clock's time t0 without sleeping and
\* leaves sleepFor as it was; a second Take while the clock still reads t0
\* sleeps perRequest, returns t0 + perRequest and leaves sleepFor = 0.
C10_FirstAndSecondTake ==
    /\ lrec.n = 1 =>
         /\ lrec.ret = lrec.now
         /\ lrec.slept = 0
         /\ sleepFor = lrec.preSleepFor
    /\ (lrec.n = 2 /\ lrec.now = lrec.preLast) =>
         /\ lrec.slept = perRequest
         /\ lrec.ret = lrec.preLast + perRequest
         /\ sleepFor = 0

\* C10 witness: the second Take was made at the time the first returned.
C10_Witness ==
    /\ lrec.n = 2
    /\ lrec.now = lrec.preLast
    /\ lrec.ret = lrec.now + perRequest
    /\ perRequest > 1

----------------------------------------------------------------------------
(* The mock clock (uber-go-ratelimit/internal/clock/clock.go).  One        *)
(* goroutine, the driver, calls Add; every other goroutine makes one timer *)
(* with Sleep, After or AfterFunc and waits for its signal.                *)

Clients == {1, 2}
Driver == Cardinality(Clients) + 1
MaxSleep == 2
MaxAdd == 2
SleepArgs == 0..MaxSleep
AddArgs == 0..MaxAdd
Kinds == {"Sleep", "After", "AfterFunc"}

\* A goroutine that has not called the clock yet.
NoTimer == [pc |-> "idle", kind |-> "", next |-> 0, fired |-> FALSE,
            sent |-> 0, sentAt |-> 0, ran |-> 0, ranAt |-> 0]

\* No Add has returned yet.
NoAdd == [done |-> FALSE, begin |-> 0, d |-> 0, now |-> 0]

\* NewMock: the clock reads time.Unix(0, 0) and no timer is pending.
NewMock ==
    /\ now = 0
    /\ mlock = 0
    /\ timers = {}
    /\ tmr = [c \in Clients |-> NoTimer]
    /\ add = [pc |-> "idle", end |-> 0, begin |-> 0, d |-> 0, t |-> 0,
              ret |-> NoAdd]

\* Timers.Less and heap.Pop: a pending timer no other one fires before.
Earliest(ts) == {t \in ts : \A u \in ts : tmr[t].next <= tmr[u].next}

\* Mock.Timer, first half, in Sleep(d), After(d) or AfterFunc(d, f): the
\* fire time is computed from m.now, read without the lock.
Timer(c, kind, d) ==
    /\ tmr[c].pc = "idle"
    /\ tmr' = [tmr EXCEPT ![c].pc = "addTimer", ![c].kind = kind,
                          ![c].next = now + d]
    /\ UNCHANGED <<now, mlock, timers, add>>

\* Mock.addTimer: the timer is pushed on the heap under the lock.
addTimer(c) ==
    /\ tmr[c].pc = "addTimer"
    /\ mlock = 0
    /\ timers' = timers \cup {c}
    /\ tmr' = [tmr EXCEPT ![c].pc = "made"]
    /\ UNCHANGED <<now, mlock, add>>

\* The goroutine reaches its receive on the timer's channel: the caller of
\* Sleep or After, or the goroutine AfterFunc starts.
Receive(c) ==
    /\ tmr[c].pc = "made"
    /\ tmr' = [tmr EXCEPT ![c].pc = "recv"]
    /\ UNCHANGED <<now, mlock, timers, add>>

\* The receive has completed: Sleep returns, or AfterFunc's f runs.
Resume(c) ==
    /\ tmr[c].pc = "got"
    /\ tmr' = [tmr EXCEPT ![c].pc = "done", ![c].ran = @ + 1,
                          ![c].ranAt = now]
    /\ UNCHANGED <<now, mlock, timers, add>>

\* Mock.Add(d) takes the lock and computes the final time.
AddBegin(d) ==
    /\ add.pc = "idle"
    /\ mlock = 0
    /\ mlock' = Driver
    /\ add' = [add EXCEPT !.pc = "loop", !.begin = now, !.d = d,
                          !.end = now + d]
    /\ UNCHANGED <<now, timers, tmr>>

\* Mock.Add keeps the lock while it fires the timer.
AddLoop_HoldingLock ==
    /\ add.pc = "loop"
    /\ IF timers # {} /\ now < add.end
       THEN \E t \in Earliest(timers) :
              /\ timers' = timers \ {t}
              /\ now' = tmr[t].next
              /\ add' = [add EXCEPT !.pc = "tick", !.t = t]
              /\ mlock' = mlock
       ELSE /\ add' = [add EXCEPT !.pc = "idle",
                          !.ret = [done |-> TRUE, begin |-> add.begin,
                                   d |-> add.d, now |-> now]]
            /\ mlock' = 0
            /\ UNCHANGED <<now, timers>>
    /\ UNCHANGED tmr

\* One test of the loop of Mock.Add, under the lock: either the earliest
\* timer is popped, now is set to its fire time and the lock is released
\* for Tick, or the loop ends, the lock is released and Add returns.  The
\* condition is the one of the source: a timer is pending and now is before
\* the final time.  Nothing is assigned to now after the loop.
AddLoop ==
    /\ add.pc = "loop"
    /\ mlock' = 0
    /\ IF timers # {} /\ now < add.end
       THEN \E t \in Earliest(timers) :
              /\ timers' = timers \ {t}
              /\ now' = tmr[t].next
              /\ add' = [add EXCEPT !.pc = "tick", !.t = t]
       ELSE /\ add' = [add EXCEPT !.pc = "idle",
                          !.ret = [done |-> TRUE, begin |-> add.begin,
                                   d |-> add.d, now |-> now]]
            /\ UNCHANGED <<now, timers>>
    /\ UNCHANGED tmr

\* Timer.Tick: a send that does not block.  The signal is taken only by a
\* goroutine already waiting on the channel.
TimerTick ==
    /\ add.pc = "tick"
    /\ LET t == add.t IN
         IF tmr[t].pc = "recv"
         THEN tmr' = [tmr EXCEPT ![t].pc = "got", ![t].fired = TRUE,
                                 ![t].sent = @ + 1, ![t].sentAt = now]
         ELSE tmr' = [tmr EXCEPT ![t].fired = TRUE]
    /\ add' = [add EXCEPT !.pc = "relock"]
    /\ UNCHANGED <<now, mlock, timers>>

\* Mock.Add takes the lock again after Tick.
AddRelock ==
    /\ add.pc = "relock"
    /\ mlock = 0
    /\ mlock' = Driver
    /\ add' = [add EXCEPT !.pc = "loop"]
    /\ UNCHANGED <<now, timers, tmr>>

ClockInit ==
    /\ NewMock
    /\ BucketIdle
    /\ LimiterIdle
    /\ ctor = <<>>
    /\ out = <<>>

ClockNext ==
    /\ \/ \E c \in Clients, k \in Kinds, d \in SleepArgs : Timer(c, k, d)
       \/ \E c \in Clients : addTimer(c)
       \/ \E c \in Clients : Receive(c)
       \/ \E c \in Clients : Resume(c)
       \/ \E d \in AddArgs : AddBegin(d)
       \/ AddLoop
       \/ TimerTick
       \/ AddRelock
    /\ UNCHANGED <<bucketVars, call, concVars, limiterVars, ctor, out>>

SpecClock == ClockInit /\ [][ClockNext]_vars

----------------------------------------------------------------------------
(* Claims about Mock.Add. *)

\* C11: when Mock.Add(d) returns, the clock reads the time at which Add
\* began plus d, whatever timers were pending, and also when none was.
C11_AddReachesTarget ==
    add.ret.done => add.ret.now = add.ret.begin + add.ret.d

\* C12: during Mock.Add(d) with target = now + d, now never exceeds the
\* target, and the timer Add has popped to fire does not fire later than the
\* target.
C12_AddStopsAtTarget ==
    add.pc \in {"loop", "tick", "relock"} =>
        /\ now <= add.end
        /\ add.pc = "tick" => tmr[add.t].next <= add.end

\* C13: the firing of a timer made by Sleep is never lost: once Add has
\* fired it, the goroutine in Sleep has been released.
C13_SleepReleased ==
    \A c \in Clients :
        (tmr[c].kind = "Sleep" /\ tmr[c].fired) =>
            tmr[c].pc \in {"got", "done"}

\* C14: now never decreases, and only Mock.Add changes it.
C14_NowMonotonic ==
    [][/\ now' >= now
       /\ now' # now => add.pc = "loop"]_vars

\* C18: the signal of a timer is delivered at most once and the f of
\* AfterFunc runs at most once, and both happen only in a state where now is
\* at least the timer's fire time.
C18_OneShotNeverEarly ==
    \A c \in Clients :
        /\ tmr[c].sent <= 1
        /\ tmr[c].ran <= 1
        /\ tmr[c].sent = 1 => tmr[c].sentAt >= tmr[c].next
        /\ (tmr[c].kind = "AfterFunc" /\ tmr[c].ran = 1) =>
               tmr[c].ranAt >= tmr[c].next

\* The part of C18 about the signal alone: it is sent at most once, f runs
\* at most once, and the send happens when now is the timer's fire time.
C18_SignalOnceAtFireTime ==
    \A c \in Clients :
        /\ tmr[c].sent <= 1
        /\ tmr[c].ran <= 1
        /\ tmr[c].sent = 1 => tmr[c].sentAt = tmr[c].next

----------------------------------------------------------------------------
(* Callers that sleep.  Wait and WaitMaxDuration run Take and               *)
(* TakeMaxDuration and then sleep on the clock; Available reads the clock   *)
(* before it takes tb.mu.  Every goroutine makes one call.                  *)

\* A count within the smallest capacity and the largest count of the model.
WaitCounts == {1, MaxCount}
NonBlocking == {"Take", "TakeMaxDuration", "TakeAvailable", "Available"}
Blocking == {"Wait", "WaitMaxDuration"}

\* Available: tb.clock.Now() is evaluated before tb.available takes tb.mu.
AvailableNow(p) ==
    /\ pc[p] = "idle"
    /\ loc' = [loc EXCEPT ![p] = [Idle EXCEPT !.op = "Available",
                                    !.now = now, !.tick = currentTick(now)]]
    /\ Goto(p, "alock")
    /\ UNCHANGED <<now, bucketVars, mu, lin>>

\* available: tb.mu.Lock()
AvailableLock(p) ==
    /\ pc[p] = "alock"
    /\ mu = 0
    /\ mu' = p
    /\ Goto(p, "aadjust")
    /\ UNCHANGED <<now, bucketVars, loc, lin>>

\* available: tb.adjustavailableTokens(tb.currentTick(now)) and the read of
\* tb.availableTokens for the result.
AvailableAdjust(p) ==
    /\ pc[p] = "aadjust"
    /\ LET b == adjustavailableTokens(Cur, loc[p].tick) IN
         /\ Commit(b)
         /\ loc' = [loc EXCEPT ![p].ret = b.availableTokens]
    /\ Goto(p, "unlock")
    /\ UNCHANGED <<now, mu, lin>>

\* The caller sleeps after the call if the call told it to wait.
Sleeps(p) == loc[p].op \in Blocking /\ loc[p].ret > 0

\* The return keeps tb.mu while the caller sleeps.
Return_HoldingLock(p) ==
    /\ pc[p] = "unlock"
    /\ mu' = IF Sleeps(p) THEN mu ELSE 0
    /\ loc' = [loc EXCEPT ![p].now = now]
    /\ Goto(p, IF Sleeps(p) THEN "sleep" ELSE "done")
    /\ UNCHANGED <<now, bucketVars, lin>>

\* The deferred tb.mu.Unlock() and the return of the call; in Wait and
\* WaitMaxDuration, tb.clock.Sleep(d) follows when d > 0, and loc[p].now
\* becomes the time at which the sleep began.
Return(p) ==
    /\ pc[p] = "unlock"
    /\ mu' = 0
    /\ loc' = [loc EXCEPT ![p].now = now]
    /\ Goto(p, IF Sleeps(p) THEN "sleep" ELSE "done")
    /\ UNCHANGED <<now, bucketVars, lin>>

\* tb.clock.Sleep(d) returns once the clock has moved by d.
Awake(p) ==
    /\ pc[p] = "sleep"
    /\ now >= loc[p].now + loc[p].ret
    /\ Goto(p, "done")
    /\ UNCHANGED <<now, bucketVars, mu, loc, lin>>

\* The steps of the calls that need no move of the clock.
WaitRun ==
    \/ \E p \in Procs, c \in WaitCounts :
         Enter(p, "Take", c, infinityDuration)
    \/ \E p \in Procs, c \in WaitCounts :
         Enter(p, "TakeMaxDuration", c, MaxWaitArg)
    \/ \E p \in Procs, c \in WaitCounts : Enter(p, "TakeAvailable", c, 0)
    \/ \E p \in Procs, c \in WaitCounts :
         Enter(p, "Wait", c, infinityDuration)
    \/ \E p \in Procs, c \in WaitCounts :
         Enter(p, "WaitMaxDuration", c, MaxWaitArg)
    \/ \E p \in Procs : AvailableNow(p)
    \/ \E p \in Procs : AvailableLock(p)
    \/ \E p \in Procs : AvailableAdjust(p)
    \/ \E p \in Procs : Lock(p)
    \/ \E p \in Procs : ReadNow(p)
    \/ \E p \in Procs : Adjust(p)
    \/ \E p \in Procs : ReadTokens(p)
    \/ \E p \in Procs : Write(p)
    \/ \E p \in Procs : Return(p)

WaitInit == ConcInit

WaitNext ==
    /\ \/ WaitRun
       \/ \E p \in Procs : Awake(p)
       \/ Tick
    /\ UNCHANGED <<call, limiterVars, restVars>>

SpecWait == WaitInit /\ [][WaitNext]_vars

\* p is inside a call that is not Wait or WaitMaxDuration.
InCall(p) == loc[p].op \in NonBlocking /\ pc[p] \notin {"idle", "done"}

\* C15: Take, TakeMaxDuration, TakeAvailable and Available never sleep, tb.mu
\* is never held by a sleeping caller, and while one of these calls is under
\* way a step of some call can be taken without the clock moving, whoever is
\* asleep in Wait or WaitMaxDuration.
C15_NeverSuspended ==
    /\ \A p \in Procs : pc[p] = "sleep" =>
                           loc[p].op \in Blocking /\ mu # p
    /\ (\E p \in Procs : InCall(p)) =>
           ENABLED (WaitRun /\ UNCHANGED <<call, limiterVars, restVars>>)

\* One caller is asleep in Wait or WaitMaxDuration, the clock has not
\* reached the end of its sleep, and the other one holds tb.mu at the end of
\* a call that does not sleep.
C15_Witness ==
    \E p, q \in Procs :
        /\ pc[p] = "sleep"
        /\ now < loc[p].now + loc[p].ret
        /\ InCall(q)
        /\ pc[q] = "unlock"
        /\ mu = q

----------------------------------------------------------------------------
(* The constructors, called with arguments of any sign. *)

FillIntervalArgs == (0 - 1)..MaxFillInterval
CapacityArgs == (0 - 1)..MaxCapacity
QuantumArgs == (0 - 1)..MaxQuantum
RateArgs == (0 - Second)..Second

Abs(x) == IF x < 0 THEN 0 - x ELSE x

\* Go's x / y on integers, y # 0: the quotient is truncated towards zero.
GoQuo(x, y) ==
    IF (x < 0) = (y < 0) THEN Abs(x) \div Abs(y)
    ELSE 0 - (Abs(x) \div Abs(y))

\* A constructor call that has not run yet.
CtorCall(kind, fi, c, q, rate) ==
    [kind |-> kind, fillInterval |-> fi, capacity |-> c, quantum |-> q,
     rate |-> rate, status |-> "called"]

\* The constructor of the bucket without its check of quantum.
NewBucketCall_NoQuantumCheck ==
    /\ ctor.kind = "bucket" /\ ctor.status = "called"
    /\ IF ctor.fillInterval <= 0 \/ ctor.capacity <= 0
       THEN /\ ctor' = [ctor EXCEPT !.status = "panic"]
            /\ UNCHANGED bucketVars
       ELSE /\ ctor' = [ctor EXCEPT !.status = "built"]
            /\ startTime' = now
            /\ latestTick' = 0
            /\ fillInterval' = ctor.fillInterval
            /\ capacity' = ctor.capacity
            /\ quantum' = ctor.quantum
            /\ availableTokens' = ctor.capacity
    /\ UNCHANGED <<now, call, limiterVars>>

\* NewBucketWithQuantumAndClock(fillInterval, capacity, quantum, clock):
\* a panic unless the three numbers are positive, else the Bucket.
NewBucketCall ==
    /\ ctor.kind = "bucket" /\ ctor.status = "called"
    /\ IF ctor.fillInterval <= 0 \/ ctor.capacity <= 0 \/ ctor.quantum <= 0
       THEN /\ ctor' = [ctor EXCEPT !.status = "panic"]
            /\ UNCHANGED bucketVars
       ELSE /\ ctor' = [ctor EXCEPT !.status = "built"]
            /\ startTime' = now
            /\ latestTick' = 0
            /\ fillInterval' = ctor.fillInterval
            /\ capacity' = ctor.capacity
            /\ quantum' = ctor.quantum
            /\ availableTokens' = ctor.capacity
    /\ UNCHANGED <<now, call, limiterVars>>

\* Available() on the bucket just built.
FirstAvailable ==
    /\ ctor.kind = "bucket" /\ ctor.status = "built"
    /\ Available
    /\ UNCHANGED <<ctor, limiterVars>>

\* New(rate) of the limiter, without options: the two divisions by rate
\* panic at run time when rate is 0, and nothing else looks at rate.
NewCall ==
    /\ ctor.kind = "limiter" /\ ctor.status = "called"
    /\ IF ctor.rate = 0
       THEN /\ ctor' = [ctor EXCEPT !.status = "panic"]
            /\ UNCHANGED <<perRequest, maxSlack, last, sleepFor>>
       ELSE /\ ctor' = [ctor EXCEPT !.status = "built"]
            /\ perRequest' = GoQuo(Second, ctor.rate)
            /\ maxSlack' = GoQuo(0 - 10 * Second, ctor.rate)
            /\ last' = ZeroTime
            /\ sleepFor' = 0
    /\ UNCHANGED <<now, bucketVars, call, lrec, burst>>

\* Take on the limiter just built.
FirstTake ==
    /\ ctor.kind = "limiter" /\ ctor.status = "built"
    /\ lrec = NoTake
    /\ LimiterTake
    /\ UNCHANGED <<ctor, bucketVars, call>>

CtorInit ==
    /\ now \in StartTimes
    /\ \/ \E fi \in FillIntervalArgs, c \in CapacityArgs, q \in QuantumArgs :
            ctor = CtorCall("bucket", fi, c, q, 0)
       \/ \E rate \in RateArgs : ctor = CtorCall("limiter", 0, 0, 0, rate)
    /\ startTime = 0
    /\ capacity = 0
    /\ quantum = 0
    /\ fillInterval = 0
    /\ availableTokens = 0
    /\ latestTick = 0
    /\ call = NoCall
    /\ ConcIdle
    /\ last = 0
    /\ sleepFor = 0
    /\ perRequest = 0
    /\ maxSlack = 0
    /\ lrec = NoTake
    /\ burst = 0
    /\ out = <<>>
    /\ mlock = 0
    /\ timers = {}
    /\ tmr = <<>>
    /\ add = <<>>

CtorNext ==
    /\ \/ NewBucketCall
       \/ FirstAvailable
       \/ NewCall
       \/ FirstTake
    /\ UNCHANGED <<concVars, out, mockVars>>

SpecCtor == CtorInit /\ [][CtorNext]_vars

\* C16: a bucket constructor called with fillInterval, capacity or quantum
\* not positive panics and leaves no Bucket; called with the three positive
\* it yields a Bucket with availableTokens = capacity and latestTick = 0.
C16_ConstructorChecks ==
    (ctor.kind = "bucket" /\ ctor.status # "called") =>
        IF ctor.fillInterval <= 0 \/ ctor.capacity <= 0 \/ ctor.quantum <= 0
        THEN /\ ctor.status = "panic"
             /\ bucketVars = <<0, 0, 0, 0, 0, 0>>
        ELSE /\ ctor.status = "built"
             /\ bucketVars = <<now, ctor.capacity, ctor.quantum,
                               ctor.fillInterval, ctor.capacity, 0>>
             /\ call.op = "Available" => call.ret = ctor.capacity

\* The constructor has panicked on a quantum of 0 or less, the two other
\* arguments being positive.
C16_Witness ==
    /\ ctor.kind = "bucket"
    /\ ctor.status = "panic"
    /\ ctor.fillInterval > 0 /\ ctor.capacity > 0 /\ ctor.quantum <= 0

\* C17: New(rate) with rate <= 0 fails and returns no limiter.
C17_NewRejectsBadRate ==
    (ctor.kind = "limiter" /\ ctor.status # "called" /\ ctor.rate <= 0) =>
        ctor.status = "panic"

----------------------------------------------------------------------------
(* The tokens the bucket hands out.  out[t] counts the tokens handed out   *)
(* at the instants from t on: what TakeAvailable returns, and the count of *)
(* a Take, TakeMaxDuration, Wait or WaitMaxDuration that is granted with   *)
(* no wait.                                                                *)

RateMaxTime == 2       \* the clock is not advanced past this
Instants == 0..RateMaxTime

\* The tokens the step hands out, read off the record of the call it made.
\* A step that hands out tokens lowers availableTokens or moves latestTick,
\* so its record differs from the one before; a step that moves the clock
\* is Advance, or a sleep after a call that was told to wait.
Granted ==
    IF now' # now \/ call' = call THEN 0
    ELSE IF call'.op = "TakeAvailable" THEN call'.ret
    ELSE IF /\ call'.op \in {"Take", "TakeMaxDuration"}
            /\ call'.ok
            /\ call'.ret = 0
            /\ call'.count > 0
         THEN call'.count
    ELSE 0

RateInit ==
    /\ NewBucketWithQuantumAndClock
    /\ call = NoCall
    /\ ConcIdle
    /\ LimiterIdle
    /\ out = [t \in Instants |-> 0]
    /\ ctor = <<>>
    /\ mlock = 0
    /\ timers = {}
    /\ tmr = <<>>
    /\ add = <<>>

RateNext ==
    /\ BucketStep
    /\ now' <= RateMaxTime
    /\ out' = [t \in Instants |-> IF t <= now THEN out[t] + Granted
                                  ELSE out[t]]
    /\ UNCHANGED <<concVars, limiterVars, ctor, mockVars>>

SpecRate == RateInit /\ [][RateNext]_vars

\* C19: for any two instants t1 <= t2, the tokens handed out in [t1, t2] are
\* at most capacity + (currentTick(t2) - currentTick(t1)) * quantum; taken
\* at t2 = now, for every t1 since the bucket was built.
C19_RateBound ==
    \A t1 \in startTime..now :
        out[t1] <= capacity + (currentTick(now) - currentTick(t1)) * quantum

\* The same bound from the construction of the bucket on only.
C19_BoundSinceStart ==
    out[startTime] <= capacity + currentTick(now) * quantum

\* C20: a Take or TakeMaxDuration that is granted with a shortfall returns
\* the wait w = startTime + (tick + ceil(shortfall / quantum)) * fillInterval
\* - now; w > 0, now + w is a tick boundary, with no other call the balance
\* is at least 0 at now + w and negative at every instant from now up to
\* now + w.
C20_WaitUntilAvailable ==
    (/\ call.op \in {"Take", "TakeMaxDuration"}
     /\ call.count > 0
     /\ call.ok
     /\ availableTokens < 0) =>
        LET w == call.ret
            tick == currentTick(call.now)
            shortfall == 0 - availableTokens
        IN  /\ w = startTime + (tick + CeilDiv(shortfall, quantum))
                                   * fillInterval - call.now
            /\ w > 0
            /\ (call.now + w - startTime) % fillInterval = 0
            /\ available(Cur, call.now + w).n >= 0
            /\ \A t \in call.now..(call.now + w - 1) :
                   available(Cur, t).n < 0

\* The part of C20 that does not depend on latestTick: the formula of the
\* wait, w > 0, now + w a tick boundary and a balance of at least 0 there.
C20_WaitFormula ==
    (/\ call.op \in {"Take", "TakeMaxDuration"}
     /\ call.count > 0
     /\ call.ok
     /\ availableTokens < 0) =>
        LET w == call.ret
            tick == currentTick(call.now)
            shortfall == 0 - availableTokens
        IN  /\ w = startTime + (tick + CeilDiv(shortfall, quantum))
                                   * fillInterval - call.now
            /\ w > 0
            /\ (call.now + w - startTime) % fillInterval = 0
            /\ available(Cur, call.now + w).n >= 0

----------------------------------------------------------------------------
(* Three concurrent callers of one bucket, each making one call: Take,     *)
(* TakeAvailable, or Available with its read of the clock ahead of tb.mu.  *)

Callers == {1, 2, 3}

RefillInit ==
    /\ NewBucketWithQuantumAndClock
    /\ call = NoCall
    /\ mu = 0
    /\ pc = [p \in Callers |-> "idle"]
    /\ loc = [p \in Callers |-> Idle]
    /\ lin = <<>>
    /\ LimiterIdle
    /\ RestIdle

RefillNext ==
    /\ \/ \E p \in Callers, c \in WaitCounts :
            Enter(p, "Take", c, infinityDuration)
       \/ \E p \in Callers, c \in WaitCounts :
            Enter(p, "TakeAvailable", c, 0)
       \/ \E p \in Callers : AvailableNow(p)
       \/ \E p \in Callers : AvailableLock(p)
       \/ \E p \in Callers : AvailableAdjust(p)
       \/ \E p \in Callers : Lock(p)
       \/ \E p \in Callers : ReadNow(p)
       \/ \E p \in Callers : Adjust(p)
       \/ \E p \in Callers : ReadTokens(p)
       \/ \E p \in Callers : Write(p)
       \/ \E p \in Callers : Return(p)
       \/ Tick
    /\ UNCHANGED <<call, limiterVars, restVars>>

SpecRefill == RefillInit /\ [][RefillNext]_vars

\* The step is a refill: a caller runs tb.adjustavailableTokens.
IsRefill ==
    \E p \in Callers : pc[p] \in {"adjust", "aadjust"} /\ pc'[p] # pc[p]

\* C21: with a clock that only moves forward and any interleaving of the
\* callers, latestTick never decreases and a refill never subtracts tokens
\* from availableTokens.
C21_RefillNeverGoesBack ==
    [][/\ latestTick' >= latestTick
       /\ IsRefill => availableTokens' >= availableTokens]_vars

\* The same for callers that read the clock under tb.mu: the refill of
\* Take and TakeAvailable.
C21_LockedRefillNeverGoesBack ==
    [][(\E p \in Callers : pc[p] = "adjust" /\ pc'[p] # pc[p]) =>
           /\ latestTick' >= latestTick
           /\ availableTokens' >= availableTokens]_vars

----------------------------------------------------------------------------
(* The mock clock with goroutines that call it again once woken: the       *)
(* caller of Sleep after Sleep has returned, or the f of AfterFunc, calls  *)
(* Now() or makes one more timer.                                          *)

\* Mock.Now: m.Lock() by a woken goroutine.
NowLock(c) ==
    /\ tmr[c].pc = "done"
    /\ mlock = 0
    /\ mlock' = c
    /\ tmr' = [tmr EXCEPT ![c].pc = "now"]
    /\ UNCHANGED <<now, timers, add>>

\* Mock.Now: the read of m.now and the deferred m.Unlock().
NowUnlock(c) ==
    /\ tmr[c].pc = "now"
    /\ mlock' = 0
    /\ tmr' = [tmr EXCEPT ![c].pc = "seen"]
    /\ UNCHANGED <<now, timers, add>>

\* The goroutine has made a second timer.
IsSecond(c) ==
    \/ tmr[c].ran > 1
    \/ tmr[c].ran = 1 /\ tmr[c].pc \in {"addTimer", "made", "recv", "got"}

\* A goroutine woken once makes a second timer, in the way it made the
\* first (Sleep, After or AfterFunc): Mock.Timer computes the fire time,
\* addTimer follows.  One goroutine does so, with d = 0.
TimerAgain(c) ==
    /\ tmr[c].pc \in {"done", "seen"}
    /\ tmr[c].ran = 1
    /\ \A e \in Clients : ~IsSecond(e)
    /\ tmr' = [tmr EXCEPT ![c] = [NoTimer EXCEPT !.pc = "addTimer",
                                     !.kind = tmr[c].kind,
                                     !.next = now, !.ran = 1]]
    /\ UNCHANGED <<now, mlock, timers, add>>

\* What wakes a goroutine that can call the clock again: the return of
\* Sleep, or the start of the f of AfterFunc.
Wakers == {"Sleep", "AfterFunc"}

WokenNext ==
    /\ \/ \E c \in Clients, k \in Wakers, d \in SleepArgs : Timer(c, k, d)
       \/ \E c \in Clients : addTimer(c)
       \/ \E c \in Clients : Receive(c)
       \/ \E c \in Clients : Resume(c)
       \/ \E c \in Clients : NowLock(c)
       \/ \E c \in Clients : NowUnlock(c)
       \/ \E c \in Clients : TimerAgain(c)
       \/ \E d \in 1..MaxAdd : AddBegin(d)
       \/ AddLoop
       \/ TimerTick
       \/ AddRelock
    /\ UNCHANGED <<bucketVars, call, concVars, limiterVars, ctor, out>>

SpecWoken == ClockInit /\ [][WokenNext]_vars

\* A step that releases the clock's lock.
Release ==
    /\ \/ AddLoop
       \/ \E c \in Clients : NowUnlock(c)
    /\ mlock' = 0

\* C22: Mock.Add does not hold the clock's lock while it fires a timer, and
\* whoever holds the lock can release it without waiting for anyone: a
\* woken goroutine that calls Now() or makes a timer while Add is under way
\* gets the lock.
C22_AddFiresUnlocked ==
    /\ add.pc \in {"tick", "relock"} => mlock # Driver
    /\ mlock # 0 => ENABLED Release

\* While Add is between the firing of a timer and its next test of the
\* loop, a goroutine it has woken holds the lock in Now(), and another one
\* it has woken is about to push a second timer.
C22_Witness ==
    /\ add.pc = "relock"
    /\ \E c, e \in Clients :
         /\ tmr[c].pc = "now" /\ mlock = c
         /\ tmr[e].pc = "addTimer" /\ IsSecond(e)

\* C23: when Add fires a timer, no pending timer has a strictly earlier
\* fire time, timers pushed while Add is under way included.
C23_FiredIsEarliest ==
    add.pc = "tick" =>
        \A u \in timers : tmr[u].next >= tmr[add.t].next

\* The timer Add pops is the earliest of the timers pending at the pop.
C23_PoppedIsEarliest ==
    [][(add.pc = "loop" /\ add'.pc = "tick") =>
           \A u \in timers : tmr[add'.t].next <= tmr[u].next]_vars

====
